---- MODULE Spec2Model ----
(***************************************************************************)
(* Glitch-Eyes: the MirrorCanvas component (src/unnamed/part_002), its     *)
(* math helpers (src/utils/math.ts) and the scene generator                *)
(* (src/unnamed/part_000), as a state machine.                             *)
(*                                                                         *)
(* JavaScript runs each callback to completion, so one action is one       *)
(* synchronous segment of a callback: onResults up to its `await`          *)
(* (OnResultsFace), onResults after the await (OnResultsResume), a whole   *)
(* onResults call that never awaits (OnResultsNoFace, OnResultsUnmounted)  *)
(* and the effect cleanup (Unmount).                                       *)
(*                                                                         *)
(* Numbers are fixed point.  Landmark coordinates are hundredths of the    *)
(* normalized [0,1] range, the flash intensity is 1/10000000 and eye       *)
(* aspect ratios are compared as squared ratios, so every comparison the   *)
(* code makes is made on integers.  Head positions go through lerp, whose  *)
(* result depends on how each floating-point operation rounds: they are    *)
(* binary floating-point numbers in units of 1/FloatOne, rounded to        *)
(* nearest, ties to even, as IEEE-754 doubles are, with a significand of   *)
(* Precision bits where a double has 53.                                   *)
(***************************************************************************)
EXTENDS Integers, Sequences, FiniteSets, TLC

VARIABLES
    mounted,     \* isMountedRef.current
    history,     \* historyRef.current, newest first
    created,     \* every ImageBitmap createImageBitmap has resolved to
    closed,      \* the bitmaps on which close() was called
    scene,       \* sceneParamsRef.current, as the number of the generated scene
    sceneParams, \* sceneParamsRef.current, the scene object
    flash,       \* resetFlashRef.current
    cooldown,    \* blinkCooldownRef.current
    head,        \* headPosRef.current
    target,      \* targetHeadPosRef.current
    now,         \* performance.now() as a logical clock: onResults calls begun
    inflight,    \* onResults calls suspended at `await Promise.all`
    resetLog,    \* history variable: the clock values at which resetScene ran
    allClosed,   \* history variable: every call so far was fed a face with both eyes below threshold
    serial,      \* history variable: no call has begun while another was suspended
    renders,     \* history variable: renderScene calls made
    seen,        \* history variable: what the latest renderScene call read
    initialized, \* where initSystem is: "pending" before the effect ran, then "ok" or "failed"
    faceMeshRef, \* faceMeshRef.current is set
    permissionError, \* the permissionError state
    errorMsg,    \* the errorMsg state
    isLoaded,    \* the isLoaded state
    camera,      \* the camera stream: "none", "requested", "loading", "playing" or "stopped"
    poll,        \* where processVideo is: "off", "scheduled" (a frame callback is pending) or "sending"
    lastSend     \* history variable: how the latest settled send ended

session == <<history, created, closed, scene, sceneParams, flash, cooldown,
             head, target, now, inflight, resetLog, allClosed, serial, renders,
             seen>>

lifecycle == <<initialized, faceMeshRef, permissionError, errorMsg, isLoaded,
               camera, poll, lastSend>>

vars == <<mounted, history, created, closed, scene, sceneParams, flash, cooldown,
          head, target, now, inflight, resetLog, allClosed, serial, renders, seen,
          initialized, faceMeshRef, permissionError, errorMsg, isLoaded,
          camera, poll, lastSend>>

----------------------------------------------------------------------------
(* Program constants *)

BLINK_THRESHOLD == 18        \* 0.18, in hundredths
MAX_HISTORY == 60
BLINK_COOLDOWN == 25
FloatOne == 16384            \* 1.0 as a floating-point number
Precision == 8               \* bits in the significand of a floating-point number
FixedStream == 5             \* the random values of the sessions that do not vary them
FLASH_ONE == 10000000        \* 1.0 in flash units
FLASH_DECAY == 85            \* 0.85, in hundredths
FLASH_EPSILON == 10000       \* 0.001 in flash units
VIDEO_WIDTH == 1280
VIDEO_HEIGHT == 720

(* Bounds of the model *)

WarmTicks == 59    \* Spec: leading calls fed the resting face, one at a time
FreeTicks == 2     \* Spec: calls after the warm-up, fed anything
ColdTicks == 3     \* SpecCold: calls fed anything
BlinkTicks == 30   \* SpecBlink: calls fed anything
MaxInFlight == 2   \* onResults calls suspended at the await at one time
BlinkInFlight == 1 \* SpecBlink: onResults calls suspended at the await at one time
HeadTicks == 36    \* SpecHead: calls fed one and the same face
FlashTicks == 46   \* SpecFlash: calls fed closed eyes or no face
StreamCount == 6   \* streams of random values a scene is generated from
GenTicks == 3      \* SpecGen: calls fed a face with open or with shut eyes
MaxDelay == 64     \* delay indices looked up in the history
PollTicks == 2     \* SpecPoll: onResults calls the library makes
EyeTicks == 3      \* SpecEye: calls fed a face whose left eye is any box of a grid

----------------------------------------------------------------------------
(* src/utils/math.ts *)

Pt(x, y) == [x |-> x, y |-> y]

Min2(a, b) == IF a < b THEN a ELSE b
Max2(a, b) == IF a > b THEN a ELSE b

\* distance(p1, p2), squared
DistanceSq(p1, p2) ==
    (p1.x - p2.x) * (p1.x - p2.x) + (p1.y - p2.y) * (p1.y - p2.y)

\* calculateEAR: v1 / h1, kept as the two squared distances.
\* An eye is <<left, right, top, bottom>>, the landmarks at the four indices.
CalculateEAR(eye) ==
    [v |-> DistanceSq(eye[3], eye[4]), h |-> DistanceSq(eye[1], eye[2])]

\* ear < thr for thr in hundredths.  h = 0 gives Infinity or NaN in the code,
\* and neither is below any threshold.
EARBelow(ear, thr) == ear.h > 0 /\ ear.v * 10000 < thr * thr * ear.h

\* The least significand of Precision bits
MinSignificand == 2 ^ (Precision - 1)

\* The spacing of the floating-point numbers around n / d
RECURSIVE UlpOf(_, _, _)
UlpOf(n, d, u) ==
    IF n \div (d * u * 2) >= MinSignificand THEN UlpOf(n, d, u * 2) ELSE u

\* n / d >= 0 rounded to the nearest floating-point number, ties to even
RoundTo(n, d) ==
    LET u == UlpOf(n, d, 1)
        a == n \div (d * u)
        r == n % (d * u)
    IN  (IF 2 * r > d * u \/ (2 * r = d * u /\ a % 2 = 1) THEN a + 1 ELSE a) * u

\* a number literal given in hundredths
ToFloat(c) == RoundTo(c * FloatOne, 100)

\* a * b of two floating-point numbers; by their significands where the
\* product of the two numerators does not fit the integers
Fmul(a, b) ==
    IF a <= 2 * FloatOne /\ b <= 2 * FloatOne
    THEN RoundTo(a * b, FloatOne)
    ELSE LET ua == UlpOf(a, 1, 1)
             ub == UlpOf(b, 1, 1)
             m == (a \div ua) * (b \div ub)
         IN  IF ua * ub >= FloatOne
             THEN RoundTo(m * ((ua * ub) \div FloatOne), 1)
             ELSE RoundTo(m, FloatOne \div (ua * ub))

Fadd(a, b) == RoundTo(a + b, 1)
Fsub(a, b) == RoundTo(a - b, 1)     \* for a >= b

LERP_T == ToFloat(8)         \* the literal 0.08

\* lerp(start, end, t) = start * (1 - t) + end * t
Lerp(start, end, t) == Fadd(Fmul(start, Fsub(FloatOne, t)), Fmul(end, t))

Floor(v) == v \div FloatOne

\* Math.random() returns a multiple of RandomGrid in [0, 1)
RandomGrid == FloatOne \div 2 ^ Precision
RandomMax == FloatOne - RandomGrid

\* randomRange(min, max), r being what Math.random() returned
RandomRange(r, min, max) == Fadd(Fmul(r, Fsub(max, min)), min)

\* generateId: the digits of r in base 36 after "0.", at most ID_LENGTH of them
ID_LENGTH == 9

RECURSIVE Base36(_, _)
Base36(x, n) ==
    IF x = 0 \/ n = 0 THEN <<>>
    ELSE <<(x * 36) \div FloatOne>> \o Base36((x * 36) % FloatOne, n - 1)

GenerateId(r) == Base36(r, ID_LENGTH)

----------------------------------------------------------------------------
(* The scene generator, src/unnamed/part_000.  A scene is generated from   *)
(* the values Math.random() returns during the call: stream s returns      *)
(* Draw(s, i) to the i-th call.                                            *)

PALETTES ==
    << [primary |-> "#00FF41", secondary |-> "#003B00", bg |-> "#000000"],
       [primary |-> "#FF0055", secondary |-> "#550011", bg |-> "#050002"],
       [primary |-> "#00F0FF", secondary |-> "#003344", bg |-> "#000508"],
       [primary |-> "#FFFFFF", secondary |-> "#444444", bg |-> "#111111"],
       [primary |-> "#FFD700", secondary |-> "#332200", bg |-> "#0A0500"],
       [primary |-> "#9D00FF", secondary |-> "#220033", bg |-> "#05000A"],
       [primary |-> "#FF4400", secondary |-> "#330D00", bg |-> "#050100"],
       [primary |-> "#FF00FF", secondary |-> "#440044", bg |-> "#0A000A"] >>

Streams == 1..StreamCount

Draw(s, i) ==
    CASE s = 1 -> 0
      [] s = 2 -> RandomMax
      [] s = 3 -> IF i % 2 = 1 THEN 0 ELSE RandomMax
      [] s = 4 -> IF i % 2 = 1 THEN RandomMax ELSE 0
      [] OTHER -> ((i * (29 * s + 14)) % (2 ^ Precision)) * RandomGrid

\* mutant: delays drawn up to MAX_HISTORY
DelayFramesWide(r) == Floor(RandomRange(r, ToFloat(200), ToFloat(6100)))

\* 29: Math.floor(randomRange(2, 45)), r being what Math.random() returned
DelayFrames(r) == Floor(RandomRange(r, ToFloat(200), ToFloat(4500)))

\* 26-39: the shape at index i, its first random value being the p-th
Shape(s, i, p, primary) ==
    LET isMain == i = 0
        q == IF isMain THEN p + 2 ELSE p + 4
    IN  [ id |-> GenerateId(Draw(s, p)),
          type |-> "rect",
          delayFrames |-> DelayFrames(Draw(s, p + 1)),
          x |-> IF isMain THEN ToFloat(50)
                ELSE RandomRange(Draw(s, p + 2), ToFloat(5), ToFloat(95)),
          y |-> IF isMain THEN ToFloat(50)
                ELSE RandomRange(Draw(s, p + 3), ToFloat(5), ToFloat(95)),
          scale |-> IF isMain THEN RandomRange(Draw(s, q), ToFloat(180), ToFloat(250))
                    ELSE RandomRange(Draw(s, q), ToFloat(30), ToFloat(140)),
          color |-> IF Draw(s, q + 1) > ToFloat(30) THEN primary ELSE "#FFFFFF",
          glitchIntensity |-> RandomRange(Draw(s, q + 2), ToFloat(10), ToFloat(90)) ]

\* 24-40: the shapes from index i on
RECURSIVE ShapesFrom(_, _, _, _, _)
ShapesFrom(s, i, shapeCount, p, primary) ==
    IF i >= shapeCount THEN <<>>
    ELSE <<Shape(s, i, p, primary)>>
           \o ShapesFrom(s, i + 1, shapeCount, IF i = 0 THEN p + 5 ELSE p + 7, primary)

\* generateNewScene, with the random values of stream s
NewScene(s) ==
    LET palette == PALETTES[Floor(Fmul(Draw(s, 1), Len(PALETTES) * FloatOne)) + 1]
        shapeCount == Floor(RandomRange(Draw(s, 2), ToFloat(2000), ToFloat(3500)))
        last == IF shapeCount = 0 THEN 3 ELSE 8 + 7 * (shapeCount - 1)
    IN  [ backgroundColor |-> palette.bg,
          primaryColor |-> palette.primary,
          secondaryColor |-> palette.secondary,
          shapes |-> ShapesFrom(s, 0, shapeCount, 3, palette.primary),
          glitchMode |-> IF Draw(s, last) > ToFloat(50) THEN "rgb-split" ELSE "invert" ]

\* the scene generated from each stream
Scenes == [s \in Streams |-> NewScene(s)]

----------------------------------------------------------------------------
(* extractEye, src/unnamed/part_002 171-204.  Landmark coordinates are     *)
(* given in hundredths of the frame; the box and the crop are floating-    *)
(* point numbers, the crop in pixels.                                      *)

RECURSIVE FoldMin(_, _, _)
FoldMin(s, i, acc) ==
    IF i > Len(s) THEN acc ELSE FoldMin(s, i + 1, Min2(acc, s[i]))

RECURSIVE FoldMax(_, _, _)
FoldMax(s, i, acc) ==
    IF i > Len(s) THEN acc ELSE FoldMax(s, i + 1, Max2(acc, s[i]))

Xs(eye) == [i \in 1..Len(eye) |-> eye[i].x]
Ys(eye) == [i \in 1..Len(eye) |-> eye[i].y]

ExtractEye(eye, width, height) ==
    LET minX0 == ToFloat(FoldMin(Xs(eye), 1, 100))
        maxX0 == ToFloat(FoldMax(Xs(eye), 1, 0))
        minY0 == ToFloat(FoldMin(Ys(eye), 1, 100))
        maxY0 == ToFloat(FoldMax(Ys(eye), 1, 0))
        paddingX == Fmul(Fsub(maxX0, minX0), ToFloat(60))
        paddingY == Fmul(Fsub(maxY0, minY0), FloatOne)
        minX == IF paddingX >= minX0 THEN 0 ELSE Fsub(minX0, paddingX)
        maxX == Min2(FloatOne, Fadd(maxX0, paddingX))
        minY == IF paddingY >= minY0 THEN 0 ELSE Fsub(minY0, paddingY)
        maxY == Min2(FloatOne, Fadd(maxY0, paddingY))
        sx == Fmul(minX, width * FloatOne)
        sy == Fmul(minY, height * FloatOne)
        sw == Fmul(Fsub(maxX, minX), width * FloatOne)
        sh == Fmul(Fsub(maxY, minY), height * FloatOne)
    IN  IF sw <= 0 \/ sh <= 0
        THEN [crop |-> FALSE]
        ELSE [crop |-> TRUE, sx |-> sx, sy |-> sy, sw |-> sw, sh |-> sh]

----------------------------------------------------------------------------
(* The tracking library's results: a face is the nose landmark and the     *)
(* four landmarks of each eye.                                             *)

Eye(cx, cy, halfW, up, down) ==
    <<Pt(cx - halfW, cy), Pt(cx + halfW, cy), Pt(cx, cy - up), Pt(cx, cy + down)>>

EyeOpen(cx, cy)      == Eye(cx, cy, 5, 2, 1)     \* ratio 0.30
EyeShut(cx, cy)      == Eye(cx, cy, 5, 0, 1)     \* ratio 0.10
EyeThreshold(cx, cy) == Eye(cx, cy, 25, 4, 5)    \* ratio 0.18 exactly
EyeFlat(cx, cy)      == Eye(cx, cy, 5, 0, 0)     \* ratio 0, box of height 0
EyePoint(cx, cy)     == Eye(cx, cy, 0, 0, 0)     \* ratio 0/0, box of size 0

Face(nose, left, right) == [nose |-> nose, left |-> left, right |-> right]

RestingFace == Face(Pt(50, 50), EyeOpen(35, 40), EyeOpen(65, 40))

\* Faces looking straight at the camera (nose at the centre of the frame)
CenteredFaces ==
    { RestingFace,
      Face(Pt(50, 50), EyeShut(35, 40), EyeShut(65, 40)),
      Face(Pt(50, 50), EyeShut(35, 40), EyeOpen(65, 40)),
      Face(Pt(50, 50), EyeOpen(35, 40), EyeShut(65, 40)),
      Face(Pt(50, 50), EyeThreshold(35, 40), EyeThreshold(65, 60)),
      Face(Pt(50, 50), EyeFlat(35, 40), EyeOpen(65, 40)),
      Face(Pt(50, 50), EyePoint(35, 40), EyeFlat(65, 40)) }

\* The centred faces both of whose eyes have a crop
CroppedFaces ==
    { f \in CenteredFaces :
        /\ ExtractEye(f.left, VIDEO_WIDTH, VIDEO_HEIGHT).crop
        /\ ExtractEye(f.right, VIDEO_WIDTH, VIDEO_HEIGHT).crop }

AllFaces ==
    CenteredFaces \cup { Face(Pt(20, 70), EyeShut(35, 40), EyeShut(65, 40)) }

\* Coordinates, in hundredths, of the landmarks of the eyes of BoxFaces
EyeGrid == {0, 27, 76, 100}

\* Centred faces whose left eye has its landmarks on the corners of any box
\* of the grid, boxes without width or height and boxes at the edges of the
\* frame included
BoxFaces ==
    { Face(Pt(50, 50), <<Pt(a, c), Pt(b, c), Pt(a, d), Pt(b, d)>>, EyeOpen(65, 40)) :
        a \in EyeGrid, b \in EyeGrid, c \in EyeGrid, d \in EyeGrid }

\* Faces with open eyes, held still at different places of the frame
HeadFaces ==
    { Face(nose, EyeOpen(35, 40), EyeOpen(65, 40)) :
        nose \in {Pt(50, 50), Pt(8, 50), Pt(9, 30), Pt(20, 70)} }

Outcomes == {"ok", "reject"}     \* how a createImageBitmap promise settles

----------------------------------------------------------------------------
(* State *)

Bmp(ts, side) == [ts |-> ts, side |-> side]

Frame(ts) == [ts |-> ts, leftEye |-> Bmp(ts, "L"), rightEye |-> Bmp(ts, "R")]

Center == Pt(ToFloat(50), ToFloat(50))

\* The refs as the component function creates them (26-46), the first scene
\* generated from a stream of the given set
InitRefs(streams) ==
    /\ mounted = TRUE
    /\ history = <<>>
    /\ created = {}
    /\ closed = {}
    /\ scene = 0
    /\ \E s \in streams : sceneParams = Scenes[s]
    /\ flash = 0
    /\ cooldown = 0
    /\ head = Center
    /\ target = Center
    /\ now = 0
    /\ inflight = {}
    /\ resetLog = {}
    /\ allClosed = TRUE
    /\ serial = TRUE
    /\ renders = 0
    /\ seen = [top |-> 0, scene |-> 0, head |-> Center]

\* The state after construction: the effect that calls initSystem has not run
InitPoll ==
    /\ InitRefs({FixedStream})
    /\ initialized = "pending"
    /\ faceMeshRef = FALSE
    /\ permissionError = FALSE
    /\ errorMsg = ""
    /\ isLoaded = FALSE
    /\ camera = "none"
    /\ poll = "off"
    /\ lastSend = "none"

\* The session once tracking is up, before the first onResults call: initSystem
\* succeeded, the camera plays and processVideo is in its first send
InitOn(streams) ==
    /\ InitRefs(streams)
    /\ initialized = "ok"
    /\ faceMeshRef = TRUE
    /\ permissionError = FALSE
    /\ errorMsg = ""
    /\ isLoaded = TRUE
    /\ camera = "playing"
    /\ poll = "sending"
    /\ lastSend = "none"

Init == InitOn({FixedStream})

----------------------------------------------------------------------------
(* Pieces of onResults and renderScene *)

\* mutant: || for &&
EitherEyeBelow(f) ==
    \/ EARBelow(CalculateEAR(f.left), BLINK_THRESHOLD)
    \/ EARBelow(CalculateEAR(f.right), BLINK_THRESHOLD)

\* 228-231: both eye aspect ratios below the threshold
BothEyesBelow(f) ==
    /\ EARBelow(CalculateEAR(f.left), BLINK_THRESHOLD)
    /\ EARBelow(CalculateEAR(f.right), BLINK_THRESHOLD)

\* mutant: < for <=
BlinkFiresStrict(f, cd) == BothEyesBelow(f) /\ cd < 0

\* 231-232: the blink check that guards resetScene
BlinkFires(f, cd) == BothEyesBelow(f) /\ cd <= 0

\* 167: generateNewScene() returns a fresh scene object
GenerateNewScene == scene + 1

\* 226: the mirrored nose position
HeadTarget(f) == Pt(Fsub(FloatOne, ToFloat(f.nose.x)), ToFloat(f.nose.y))

\* mutant: unshift without the pop
PushFrameNoPop(h, frame) == <<frame>> \o h

\* mutant: >= for >, the pop coming one entry early
PushFramePopsEarly(h, frame) ==
    LET u == <<frame>> \o h
    IN  IF Len(u) >= MAX_HISTORY THEN SubSeq(u, 1, Len(u) - 1) ELSE u

\* 250-252: unshift, then pop when the length exceeds MAX_HISTORY
PushFrame(h, frame) ==
    LET u == <<frame>> \o h
    IN  IF Len(u) > MAX_HISTORY THEN SubSeq(u, 1, Len(u) - 1) ELSE u

\* mutant: the right bitmap is not closed
EvictedLeftOnly(h, frame) ==
    LET u == <<frame>> \o h
    IN  IF Len(u) > MAX_HISTORY THEN {u[Len(u)].leftEye} ELSE {}

\* mutant: the bitmaps closed are those of the entry that becomes the last
EvictedSurvivor(h, frame) ==
    LET u == <<frame>> \o h
    IN  IF Len(u) > MAX_HISTORY
        THEN {u[Len(u) - 1].leftEye, u[Len(u) - 1].rightEye} ELSE {}

\* 252-254: the bitmaps of the popped entry, both closed
Evicted(h, frame) ==
    LET u == <<frame>> \o h
    IN  IF Len(u) > MAX_HISTORY
        THEN {u[Len(u)].leftEye, u[Len(u)].rightEye}
        ELSE {}

\* mutant: a freshly set cooldown is not decremented
CooldownAfterTickLate(cd) == IF cd > 0 /\ cd < BLINK_COOLDOWN THEN cd - 1 ELSE cd

\* mutant: the decrement without its guard
CooldownAfterTickUnguarded(cd) == cd - 1

\* 264: the cooldown decrement
CooldownAfterTick(cd) == IF cd > 0 THEN cd - 1 ELSE cd

\* mutant: the decay without the clamp to 0
FlashAfterRenderNoClamp(f) == (f * FLASH_DECAY) \div 100

\* mutant: the decay is skipped while the flash is at full intensity
FlashAfterRenderLate(f) ==
    IF f > FLASH_EPSILON /\ f < FLASH_ONE THEN (f * FLASH_DECAY) \div 100
    ELSE IF f = FLASH_ONE THEN f ELSE 0

\* 451-484: the reset overlay's decay of the flash intensity
FlashAfterRender(f) ==
    IF f > FLASH_EPSILON THEN (f * FLASH_DECAY) \div 100 ELSE 0

\* mutant: || for &&
PushesWithEitherBitmap(okL, okR, rejected) == ~rejected /\ (okL \/ okR)

\* 238-244: Promise.all did not reject and both bitmaps are there
PushesFrame(okL, okR, rejected) == ~rejected /\ okL /\ okR

\* mutant: the scene object is kept and its shape list replaced
ResetSceneShapesOnly(params, s) == [params EXCEPT !.shapes = Scenes[s].shapes]

\* 167: sceneParamsRef.current = generateNewScene()
ResetScene(params, s) == Scenes[s]

\* mutant: the index is not clamped to the last entry
HistoryIndexUnclamped(delayFrames, length) == delayFrames

\* 316, 360: Math.min(shape.delayFrames, historyRef.current.length - 1)
HistoryIndex(delayFrames, length) == Min2(delayFrames, length - 1)

\* mutant: the index is tested for truth, so that index 0 finds no frame
FrameDataFalsyIndex(h, historyIndex) ==
    IF historyIndex > 0 /\ historyIndex < Len(h) THEN <<h[historyIndex + 1]>> ELSE <<>>

\* 317-319: historyRef.current[historyIndex], as the sequence of the frame
\* found; a negative index and an index past the end find none
FrameData(h, historyIndex) ==
    IF historyIndex >= 0 /\ historyIndex < Len(h) THEN <<h[historyIndex + 1]>> ELSE <<>>

\* 362: shape.id.charCodeAt(0) % 2 === 0, the digits 0-9 having the codes
\* 48-57 and the digits a-z the codes 97-122; the code of "" is NaN
UseLeftEye(id) ==
    /\ id # <<>>
    /\ (IF id[1] < 10 THEN 48 + id[1] ELSE 87 + id[1]) % 2 = 0

\* 271-448: what renderScene reads when it runs, the scene object being
\* params and the history h: the scene object once (277), the secondary
\* colour of its palette (293), its shape list (315), and per shape the
\* history entry in the placement pass (315-330) and its bitmap in the
\* drawing pass (357-364).  Of the state renderScene writes the flash only.
RenderScene(params, h) ==
    LET shapes == params.shapes
        found(i) == FrameData(h, HistoryIndex(shapes[i].delayFrames, Len(h)))
        renderedShapes == SelectSeq([i \in 1..Len(shapes) |-> i],
                                    LAMBDA i : found(i) # <<>>)
    IN  [ strokeStyle |-> params.secondaryColor,
          shapes |-> shapes,
          placed |-> [k \in 1..Len(renderedShapes) |->
                        LET i == renderedShapes[k]
                        IN  [ shape |-> i - 1,
                              historyIndex |->
                                  HistoryIndex(shapes[i].delayFrames, Len(h)),
                              ts |-> found(i)[1].ts ]],
          drawn |-> [k \in 1..Len(renderedShapes) |->
                        LET i == renderedShapes[k]
                        IN  IF UseLeftEye(shapes[i].id)
                            THEN found(i)[1].leftEye
                            ELSE found(i)[1].rightEye] ]

\* mutant: faceMeshRef.current is assigned as soon as the client is constructed
FaceMeshAfterInitEarly(outcome) == outcome # "missing"

\* 57-73: faceMeshRef.current is assigned after every call that can throw
FaceMeshAfterInit(outcome) == outcome = "ok"

\* 80-85: the message of the error initSystem caught
InitErrorMsg(outcome) ==
    IF outcome = "missing" THEN "Failed to load MediaPipe modules"
    ELSE "Initialization Failed"

\* mutant: processVideo without the test of isMountedRef
ProcessVideoUnmounted(ready) ==
    IF ~faceMeshRef THEN "off"
    ELSE IF ready THEN "sending"
    ELSE "scheduled"

\* 150-163: processVideo up to its await or its return; ready is the test of
\* line 154
ProcessVideo(ready) ==
    IF ~mounted \/ ~faceMeshRef THEN "off"
    ELSE IF ready THEN "sending"
    ELSE "scheduled"

\* mutant: a send that throws ends processVideo
PollAfterSendNoCatch(outcome) == IF outcome = "throw" THEN "off" ELSE "scheduled"

\* 155-163: the catch is empty, and the next frame callback is requested
\* however the send settled
PollAfterSend(outcome) == "scheduled"

\* 108-123: startCamera of a mounted component up to its await or its
\* return; api tells whether navigator.mediaDevices.getUserMedia exists
StartCamera(api) ==
    /\ permissionError' = ~api
    /\ errorMsg' = (IF api THEN "" ELSE "Browser API Unavailable")
    /\ camera' = (IF api THEN "requested" ELSE camera)

\* the capture time of the entry at index 0 of the history, 0 when it is empty
Top(h) == IF h = <<>> THEN 0 ELSE h[1].ts

\* 244-268, 277, 317: renderScene is the last statement of onResults; it reads
\* the history after the push, the scene ref and the head position after the
\* two lerps
RenderReads(hBefore, hAfter, sc, headBefore, headAfter) ==
    [top |-> Top(hAfter), scene |-> sc, head |-> headAfter]

\* mutant: renderScene takes one more from the cooldown
FinishTickRenderCools(cd, fl) ==
    /\ cooldown' = CooldownAfterTick(CooldownAfterTick(cd))
    /\ head' = Pt(Lerp(head.x, target'.x, LERP_T), Lerp(head.y, target'.y, LERP_T))
    /\ flash' = FlashAfterRender(fl)
    /\ renders' = renders + 1
    /\ seen' = RenderReads(history, history', scene', head, head')

\* 264-268: the tail of every onResults call that gets that far; the render
\* reads the scene and the history as this step leaves them
FinishTick(cd, fl) ==
    /\ cooldown' = CooldownAfterTick(cd)
    /\ head' = Pt(Lerp(head.x, target'.x, LERP_T), Lerp(head.y, target'.y, LERP_T))
    /\ flash' = FlashAfterRender(fl)
    /\ renders' = renders + 1
    /\ seen' = RenderReads(history, history', scene', head, head')

----------------------------------------------------------------------------
(* Actions *)

\* onResults with a face, from its first line to `await Promise.all` (206-242),
\* a reset generating its scene from a stream of the given set
OnResultsFaceOn(f, limit, cap, streams) ==
    /\ mounted
    /\ now < limit
    /\ Cardinality(inflight) < cap
    /\ now' = now + 1
    /\ target' = HeadTarget(f)
    /\ IF BlinkFires(f, cooldown)
       THEN /\ cooldown' = BLINK_COOLDOWN
            /\ scene' = GenerateNewScene
            /\ \E s \in streams : sceneParams' = ResetScene(sceneParams, s)
            /\ flash' = FLASH_ONE
            /\ resetLog' = resetLog \cup {now'}
       ELSE UNCHANGED <<cooldown, scene, sceneParams, flash, resetLog>>
    /\ allClosed' = (allClosed /\ BothEyesBelow(f))
    /\ inflight' = inflight \cup
           { [ts |-> now',
              left |-> ExtractEye(f.left, VIDEO_WIDTH, VIDEO_HEIGHT).crop,
              right |-> ExtractEye(f.right, VIDEO_WIDTH, VIDEO_HEIGHT).crop] }
    /\ serial' = (serial /\ inflight = {})
    /\ UNCHANGED <<mounted, history, created, closed, head, renders, seen>>
    /\ UNCHANGED lifecycle

OnResultsFace(f, limit, cap) == OnResultsFaceOn(f, limit, cap, {FixedStream})

\* onResults after the await (244-268).  ol and or are how the left and the
\* right createImageBitmap promise settle, for the eyes that have one.
OnResultsResume(inv, ol, or) ==
    LET okL == inv.left /\ ol = "ok"
        okR == inv.right /\ or = "ok"
        rejected == (inv.left /\ ol = "reject") \/ (inv.right /\ or = "reject")
        made == (IF okL THEN {Bmp(inv.ts, "L")} ELSE {})
                  \cup (IF okR THEN {Bmp(inv.ts, "R")} ELSE {})
        push == PushesFrame(okL, okR, rejected)
    IN  /\ inv \in inflight
        /\ inflight' = inflight \ {inv}
        /\ created' = created \cup made
        /\ IF push
           THEN /\ history' = PushFrame(history, Frame(inv.ts))
                /\ closed' = closed \cup Evicted(history, Frame(inv.ts))
           ELSE UNCHANGED <<history, closed>>
        /\ target' = target
        /\ UNCHANGED <<mounted, scene, sceneParams, now, resetLog, allClosed, serial>>
        /\ UNCHANGED lifecycle
        /\ FinishTick(cooldown, flash)

\* mutant: without a face the head target stays where it was
OnResultsNoFaceKeepsTarget(from, limit) ==
    /\ mounted
    /\ from <= now /\ now < limit
    /\ now' = now + 1
    /\ target' = target
    /\ allClosed' = FALSE
    /\ serial' = (serial /\ inflight = {})
    /\ UNCHANGED <<mounted, history, created, closed, scene, sceneParams, inflight,
                   resetLog>>
    /\ UNCHANGED lifecycle
    /\ FinishTick(cooldown, flash)

\* onResults without a face: no await (206-222, 260-268)
OnResultsNoFace(from, limit) ==
    /\ mounted
    /\ from <= now /\ now < limit
    /\ now' = now + 1
    /\ target' = Center
    /\ allClosed' = FALSE
    /\ serial' = (serial /\ inflight = {})
    /\ UNCHANGED <<mounted, history, created, closed, scene, sceneParams, inflight,
                   resetLog>>
    /\ UNCHANGED lifecycle
    /\ FinishTick(cooldown, flash)

\* onResults after the component was unmounted (207)
OnResultsUnmounted ==
    /\ ~mounted
    /\ UNCHANGED vars

\* the effect cleanup (91-101): the pending frame callback is cancelled and
\* the tracks of an attached stream are stopped
Unmount ==
    /\ mounted
    /\ mounted' = FALSE
    /\ poll' = (IF poll = "scheduled" THEN "off" ELSE poll)
    /\ camera' = (IF camera \in {"loading", "playing"} THEN "stopped" ELSE camera)
    /\ UNCHANGED <<history, created, closed, scene, sceneParams, flash, cooldown,
                   head, target, now, inflight, resetLog, allClosed, serial, renders,
                   seen>>
    /\ UNCHANGED <<initialized, faceMeshRef, permissionError, errorMsg, isLoaded,
                   lastSend>>

InitOutcomes == {"ok", "missing", "throw"}   \* how the body of initSystem ends

SendOutcomes == {"resolve", "throw"}         \* how a send settles

\* the effect (48-89): initSystem, all of it synchronous up to startCamera's
\* await.  "missing" is the throw of line 58, "throw" one by the constructor
\* or by setOptions.
InitSystem(outcome, api) ==
    /\ initialized = "pending"
    /\ initialized' = (IF outcome = "ok" THEN "ok" ELSE "failed")
    /\ faceMeshRef' = FaceMeshAfterInit(outcome)
    /\ IF outcome = "ok"
       THEN StartCamera(api)
       ELSE /\ permissionError' = TRUE
            /\ errorMsg' = InitErrorMsg(outcome)
            /\ camera' = camera
    /\ UNCHANGED <<mounted, isLoaded, poll, lastSend>>
    /\ UNCHANGED session

\* the retry button, rendered while permissionError is set (566-575)
Retry(api) ==
    /\ mounted
    /\ permissionError
    /\ StartCamera(api)
    /\ UNCHANGED <<mounted, initialized, faceMeshRef, isLoaded, poll, lastSend>>
    /\ UNCHANGED session

\* startCamera after getUserMedia settled (125-146)
CameraSettles(granted) ==
    /\ camera = "requested"
    /\ IF granted
       THEN /\ camera' = (IF mounted THEN "loading" ELSE "stopped")
            /\ UNCHANGED <<permissionError, errorMsg>>
       ELSE /\ camera' = "none"
            /\ permissionError' = (mounted \/ permissionError)
            /\ errorMsg' = (IF mounted THEN "Permission Denied" ELSE errorMsg)
    /\ UNCHANGED <<mounted, initialized, faceMeshRef, isLoaded, poll, lastSend>>
    /\ UNCHANGED session

\* the onloadeddata handler (133-138)
LoadedData(ready) ==
    /\ camera = "loading"
    /\ mounted
    /\ camera' = "playing"
    /\ isLoaded' = TRUE
    /\ poll' = ProcessVideo(ready)
    /\ UNCHANGED <<mounted, initialized, faceMeshRef, permissionError, errorMsg,
                   lastSend>>
    /\ UNCHANGED session

\* the frame callback: processVideo up to its await or its return (149-163)
RafFires(ready) ==
    /\ poll = "scheduled"
    /\ poll' = ProcessVideo(ready)
    /\ UNCHANGED <<mounted, initialized, faceMeshRef, permissionError, errorMsg,
                   isLoaded, camera, lastSend>>
    /\ UNCHANGED session

\* processVideo after the send settled (155-163)
SendSettles(outcome) ==
    /\ poll = "sending"
    /\ poll' = PollAfterSend(outcome)
    /\ lastSend' = (IF outcome = "throw" THEN "threw" ELSE "resolved")
    /\ UNCHANGED <<mounted, initialized, faceMeshRef, permissionError, errorMsg,
                   isLoaded, camera>>
    /\ UNCHANGED session

----------------------------------------------------------------------------
(* Spec: MAX_HISTORY is reached by WarmTicks calls fed the resting face,   *)
(* one at a time and with every bitmap created; the FreeTicks calls after  *)
(* them are fed anything and may overlap.  SpecCold is the same session    *)
(* without the warm-up: ColdTicks calls fed anything.                      *)

NextOf(warm, free) ==
    \/ \E f \in (IF now < warm THEN {RestingFace} ELSE AllFaces) :
          OnResultsFace(f, warm + free, IF now < warm THEN 1 ELSE MaxInFlight)
    \/ OnResultsNoFace(warm, warm + free)
    \/ \E inv \in inflight :
          \E ol, or \in (IF inv.ts <= warm THEN {"ok"} ELSE Outcomes) :
             OnResultsResume(inv, ol, or)
    \/ OnResultsUnmounted
    \/ Unmount

Next == NextOf(WarmTicks, FreeTicks)

Spec == Init /\ [][Next]_vars

NextCold == NextOf(0, ColdTicks)

SpecCold == Init /\ [][NextCold]_vars

(* SpecBlink: a session of BlinkTicks calls fed any centred face with two  *)
(* eye crops, or no face, on frames whose bitmaps cannot be created; the   *)
(* component stays mounted.  At most BlinkInFlight calls are suspended at  *)
(* a time; in SpecOverlap, the same session, at most MaxInFlight.          *)

NextBlinkOf(cap) ==
    \/ \E f \in CroppedFaces : OnResultsFace(f, BlinkTicks, cap)
    \/ OnResultsNoFace(0, BlinkTicks)
    \/ \E inv \in inflight : OnResultsResume(inv, "reject", "reject")

NextBlink == NextBlinkOf(BlinkInFlight)

SpecBlink == Init /\ [][NextBlink]_vars

NextOverlap == NextBlinkOf(MaxInFlight)

SpecOverlap == Init /\ [][NextOverlap]_vars

(* SpecHead: a session of HeadTicks calls, one at a time, all fed the same  *)
(* face, so that the head target is set by the first call and stays where  *)
(* it is; no bitmap can be created.                                        *)

NextHead ==
    \/ \E f \in HeadFaces :
          /\ now = 0 \/ HeadTarget(f) = target
          /\ OnResultsFace(f, HeadTicks, 1)
    \/ \E inv \in inflight : OnResultsResume(inv, "reject", "reject")

SpecHead == Init /\ [][NextHead]_vars

(* SpecFlash: a session of FlashTicks calls, one at a time, each fed the    *)
(* centred face with both eyes shut or no face; no bitmap can be created.  *)

NextFlash ==
    \/ OnResultsFace(Face(Pt(50, 50), EyeShut(35, 40), EyeShut(65, 40)), FlashTicks, 1)
    \/ OnResultsNoFace(0, FlashTicks)
    \/ \E inv \in inflight : OnResultsResume(inv, "reject", "reject")

SpecFlash == Init /\ [][NextFlash]_vars

(* SpecGen: a session of GenTicks calls, overlapping or not, fed the        *)
(* resting face or the centred face with both eyes shut, every bitmap      *)
(* created; the first scene and the scene of a reset are generated from    *)
(* any stream of random values.                                            *)

InitGen == InitOn(Streams)

NextGen ==
    \/ \E f \in {RestingFace, Face(Pt(50, 50), EyeShut(35, 40), EyeShut(65, 40))} :
          OnResultsFaceOn(f, GenTicks, MaxInFlight, Streams)
    \/ \E inv \in inflight : OnResultsResume(inv, "ok", "ok")

SpecGen == InitGen /\ [][NextGen]_vars

(* SpecPoll: the session from construction on.  initSystem ends in any    *)
(* way, the camera is granted or denied, the user retries, the video is    *)
(* ready or not when processVideo looks at it, and a send resolves or       *)
(* throws; while a send is pending the library makes up to PollTicks       *)
(* onResults calls, fed the resting face or no face.                       *)

NextPoll ==
    \/ \E outcome \in InitOutcomes, api \in BOOLEAN : InitSystem(outcome, api)
    \/ \E api \in BOOLEAN : Retry(api)
    \/ \E granted \in BOOLEAN : CameraSettles(granted)
    \/ \E ready \in BOOLEAN : LoadedData(ready)
    \/ \E ready \in BOOLEAN : RafFires(ready)
    \/ \E outcome \in SendOutcomes : SendSettles(outcome)
    \/ poll = "sending" /\ OnResultsFace(RestingFace, PollTicks, MaxInFlight)
    \/ poll = "sending" /\ OnResultsNoFace(0, PollTicks)
    \/ \E inv \in inflight : \E ol, or \in Outcomes : OnResultsResume(inv, ol, or)
    \/ poll = "sending" /\ OnResultsUnmounted
    \/ initialized # "pending" /\ Unmount

SpecPoll == InitPoll /\ [][NextPoll]_vars

(* SpecDeep: the warm-up of Spec with the first scene generated from any   *)
(* stream of random values: WarmTicks calls fed the resting face, then     *)
(* FreeTicks calls fed the resting face or the centred face with both eyes *)
(* shut, whose reset generates its scene from any stream; one call at a    *)
(* time, every bitmap created.                                             *)

NextDeep ==
    \/ \E f \in (IF now < WarmTicks THEN {RestingFace}
                  ELSE {RestingFace, Face(Pt(50, 50), EyeShut(35, 40), EyeShut(65, 40))}) :
          OnResultsFaceOn(f, WarmTicks + FreeTicks, 1, Streams)
    \/ \E inv \in inflight : OnResultsResume(inv, "ok", "ok")

SpecDeep == InitGen /\ [][NextDeep]_vars

(* SpecEye: a session of EyeTicks calls, one at a time, each fed a face of *)
(* BoxFaces or no face; a bitmap is created or not.                        *)

NextEye ==
    \/ \E f \in BoxFaces : OnResultsFace(f, EyeTicks, 1)
    \/ OnResultsNoFace(0, EyeTicks)
    \/ \E inv \in inflight : \E ol, or \in Outcomes : OnResultsResume(inv, ol, or)

SpecEye == Init /\ [][NextEye]_vars

----------------------------------------------------------------------------
(* Properties *)

Range(h) == {h[i] : i \in 1..Len(h)}

FrameBitmaps(fr) == {fr.leftEye, fr.rightEye}

Idle == inflight = {}

\* C1: the history buffer never holds more than MAX_HISTORY entries, in any
\* state between callback steps, overlapping calls included.
C1_HistoryBounded == Len(history) <= MAX_HISTORY

\* C1 witness: a full buffer that has evicted, in a session where calls overlapped
C1_Witness == Len(history) = MAX_HISTORY /\ closed # {} /\ ~serial

\* C2: a push onto a buffer of MAX_HISTORY entries puts the new frame at the
\* front, removes exactly the last entry, closes both bitmaps of that entry, and
\* keeps the other entries in order with their bitmaps open.
C2_PushAtCapacity ==
    [][ (Len(history) = MAX_HISTORY /\ history' # history) =>
          LET old == history[MAX_HISTORY]
              new == history'[1]
          IN  /\ Len(history') = MAX_HISTORY
              /\ new \notin Range(history)
              /\ new.ts \in {inv.ts : inv \in inflight \ inflight'}
              /\ FrameBitmaps(new) \subseteq created' \ closed'
              /\ \A i \in 1..(MAX_HISTORY - 1) : history'[i + 1] = history[i]
              /\ FrameBitmaps(old) \cap closed = {}
              /\ closed' = closed \cup FrameBitmaps(old)
              /\ \A i \in 1..MAX_HISTORY : FrameBitmaps(history'[i]) \cap closed' = {}
      ]_vars

\* C2 witness: the oldest frame was evicted from a full buffer by a push
C2_Witness ==
    /\ Len(history) = MAX_HISTORY
    /\ history[MAX_HISTORY].ts = 2
    /\ closed = {Bmp(1, "L"), Bmp(1, "R")}

\* C3: whenever no call is suspended, every bitmap created and not closed is held
\* by exactly one history entry.
C3_BitmapsOwned ==
    Idle =>
      \A b \in created \ closed :
         Cardinality({i \in 1..Len(history) : b \in FrameBitmaps(history[i])}) = 1

\* C4 as claimed: a session of 30 calls, one after another, each fed a face with
\* both eyes below the threshold, resets the scene exactly once.
C4_OneResetIn30 ==
    (allClosed /\ serial /\ Idle /\ now = 30) => Cardinality(resetLog) = 1

\* C4 as amended: in a session of calls each fed a face with both eyes below the
\* threshold, the 1st call resets the scene and none of the calls 2..25 does; when
\* the calls come one after another the 26th call resets it again, so that 30
\* calls reset it twice.
C4_ResetsAt1And26 ==
    (allClosed /\ now >= 1) =>
       /\ 1 \in resetLog
       /\ resetLog \cap 2..25 = {}
       /\ (serial /\ Idle /\ now \in 1..25) => resetLog = {1}
       /\ (serial /\ Idle /\ now \in 26..30) => resetLog = {1, 26}

\* C4 witness: thirty such calls have completed
C4_Witness == allClosed /\ serial /\ Idle /\ now = 30 /\ mounted

\* C5: two resets are never fewer than 25 calls apart, whatever is fed in
\* between.
C5_Debounce ==
    \A t1, t2 \in resetLog : t1 < t2 => t2 - t1 >= 25

\* C6 as claimed: after three calls fed closed eyes from a fresh session the
\* cooldown is 23.
C6_CooldownIs23 == (allClosed /\ Idle /\ now = 3) => cooldown = 23

\* C6 as amended: after three such calls the cooldown is 22, the call that
\* resets also decrementing it.
C6_CooldownIs22 ==
    (allClosed /\ Idle) =>
       /\ now = 1 => cooldown = 24
       /\ now = 2 => cooldown = 23
       /\ now = 3 => cooldown = 22

\* C6 witness: three such calls have completed and the cooldown is running
C6_Witness == allClosed /\ Idle /\ now = 3 /\ cooldown > 0

\* C7: after three calls fed closed eyes from a fresh session the flash intensity
\* is 1.0 * 0.85^3: set to 1.0 once, by the first call, and decayed once by each of
\* the three renders, the first of them in the call that reset.
C7_FlashAfterThree ==
    (allClosed /\ Idle /\ now \in 1..3) =>
       /\ resetLog = {1}
       /\ renders = now
       /\ now = 1 => flash = (FLASH_ONE \div 100) * 85
       /\ now = 2 => flash = (FLASH_ONE \div 10000) * 7225
       /\ now = 3 => flash = (FLASH_ONE \div 1000000) * 614125

\* C7 witness: three such calls have completed and rendered
C7_Witness == allClosed /\ Idle /\ now = 3 /\ renders = 3 /\ flash > 0

\* C8: the scene is reset by a call exactly when it is fed a face whose two eye
\* aspect ratios are both strictly below 0.18 while the cooldown is <= 0; the
\* reset installs a new scene, sets the flash to 1.0 and the cooldown to 25; no
\* other step resets.
C8_ResetIff ==
    [][ LET belowThreshold(eye) ==
                LET v == DistanceSq(eye[3], eye[4])
                    h == DistanceSq(eye[1], eye[2])
                IN  h > 0 /\ v * 10000 < 324 * h
            due(f) == belowThreshold(f.left) /\ belowThreshold(f.right) /\ cooldown <= 0
            fed(f) == OnResultsFace(f, WarmTicks + FreeTicks, MaxInFlight)
        IN  /\ \A f \in AllFaces : fed(f) => ((scene' # scene) <=> due(f))
            /\ (scene' # scene) =>
                  /\ \E f \in AllFaces : fed(f) /\ due(f)
                  /\ scene' > scene
                  /\ flash' = FLASH_ONE
                  /\ cooldown' = 25
                  /\ resetLog' = resetLog \cup {now'}
            /\ (scene' = scene) => resetLog' = resetLog
      ]_vars

\* C8 witness: a reset has fired, and later calls were fed closed eyes or one
\* closed eye while the cooldown ran
C8_Witness ==
    /\ resetLog = {WarmTicks + 1}
    /\ now = WarmTicks + FreeTicks
    /\ Idle
    /\ cooldown = 25 - FreeTicks

\* C9: while a call is suspended at its await, no other call changes the head
\* target, the cooldown, the scene, the flash, the head position or the history.
C9_Serialized ==
    [][ (inflight # {} /\ now' # now) =>
          UNCHANGED <<target, cooldown, scene, flash, head, history>> ]_vars

\* C10: a call that resumes after the unmount pushes nothing, closes the bitmaps
\* it created and does not render.
C10_NoPushAfterUnmount ==
    [][ (~mounted /\ inflight' # inflight) =>
          /\ history' = history
          /\ renders' = renders
          /\ (created' \ created) \subseteq closed' ]_vars

\* C11: the history is ordered newest first by capture time: an entry nearer the
\* front was captured no earlier than any entry behind it, whatever the order in
\* which suspended calls resume.
C11_NewestFirst ==
    \A i, j \in 1..Len(history) : i < j => history[i].ts >= history[j].ts

\* On one axis: the step from cur to new does not move away from goal and does
\* not cross it.
Approaches(cur, new, goal) ==
    /\ (IF new >= goal THEN new - goal ELSE goal - new)
          <= (IF cur >= goal THEN cur - goal ELSE goal - cur)
    /\ cur <= goal => new <= goal
    /\ cur >= goal => new >= goal

\* C15: in every tick that leaves the target where it was, the head position on
\* each axis gets no farther from the target and does not cross it; a head
\* position equal to the target stays equal.
C15_SmoothingApproaches ==
    [][ (renders' # renders /\ target' = target) =>
          /\ Approaches(head.x, head'.x, target.x)
          /\ Approaches(head.y, head'.y, target.y)
          /\ head = target => head' = head ]_vars

\* C16: a call without a face (it begins and is not suspended) sets the head
\* target to (0.5, 0.5), leaves the history as it was, creates no bitmap and
\* resets nothing; it moves the head position no farther from the centre and
\* renders once.
C16_NoFaceTick ==
    [][ (now' # now /\ inflight' = inflight) =>
          /\ target' = Pt(FloatOne \div 2, FloatOne \div 2)
          /\ history' = history
          /\ created' = created
          /\ scene' = scene /\ resetLog' = resetLog
          /\ Approaches(head.x, head'.x, FloatOne \div 2)
          /\ Approaches(head.y, head'.y, FloatOne \div 2)
          /\ head \notin {head', target'} => head' # target'
          /\ renders' = renders + 1 ]_vars

\* C16 witness: the second call had no face and pulled an off-centre head
\* position back toward the centre
C16_Witness ==
    /\ now = 2 /\ Idle /\ renders = 2
    /\ target = Center
    /\ head.x > Center.x /\ head.y > Center.y
    /\ history = <<>> /\ created = {} /\ resetLog = {1}

\* C17: a call whose extraction fails (an eye without a crop, or a bitmap whose
\* creation rejects, so that it resumes with fewer than two bitmaps created)
\* pushes nothing when it resumes, and still decrements the cooldown, smooths the
\* head position and renders exactly once.
C17_ExtractionFailure ==
    [][ (inflight' # inflight /\ now' = now /\ Cardinality(created' \ created) < 2) =>
          /\ history' = history
          /\ cooldown' = (IF cooldown > 0 THEN cooldown - 1 ELSE cooldown)
          /\ head' = Pt(Lerp(head.x, target.x, LERP_T), Lerp(head.y, target.y, LERP_T))
          /\ renders' = renders + 1 ]_vars

\* C17 witness: the first call reset the scene, one of its two bitmaps was
\* created and the other rejected; the call has resumed
C17_Witness ==
    /\ now = 1 /\ Idle /\ renders = 1
    /\ Cardinality(created) = 1
    /\ history = <<>>
    /\ cooldown = BLINK_COOLDOWN - 1
    /\ head # Center

\* C14: a step without a reset never raises the flash intensity and leaves an
\* intensity of 0 at 0; the render of the reset call and the 43 renders after it
\* bring an intensity of 1.0 to exactly 0, and no fewer renders do.
C14_FlashDecays ==
    [][ /\ resetLog' = resetLog => (flash' <= flash /\ (flash = 0 => flash' = 0))
        /\ (inflight' = {} /\ resetLog' # {}) =>
              LET last == CHOOSE t \in resetLog' : \A u \in resetLog' : u <= t
                  rendersSince == now' - last + 1
              IN  /\ rendersSince >= 44 => flash' = 0
                  /\ rendersSince < 44 => (flash' > 0 /\ flash' < FLASH_ONE)
      ]_vars

\* C14 witness: the flash set by a reset in call 2 has decayed to 0 and stayed 0
C14_Witness ==
    /\ resetLog = {2} /\ now = 46 /\ Idle /\ renders = 46
    /\ flash = 0

\* C20: the scene in use has 20 to 34 shapes; its first shape is at exactly
\* (0.5, 0.5) with a scale in [1.8, 2.5); every other shape has a scale in
\* [0.3, 1.4) and both coordinates in [0.05, 0.95).
C20_SceneShapes ==
    LET shapes == sceneParams.shapes
        within(v, lo, hi) == ToFloat(lo) <= v /\ v < ToFloat(hi)
    IN  /\ Len(shapes) \in 20..34
        /\ shapes[1].x = ToFloat(50) /\ shapes[1].y = ToFloat(50)
        /\ within(shapes[1].scale, 180, 250)
        /\ \A i \in 2..Len(shapes) :
              /\ within(shapes[i].scale, 30, 140)
              /\ within(shapes[i].x, 5, 95)
              /\ within(shapes[i].y, 5, 95)

\* C12: the scene object in use is at every moment one generated scene as a
\* whole; a render reads its stroke colour and its shape list from one and the
\* same generated scene, the shapes being coloured from the palette of the
\* stroke colour, and the step that renders leaves the scene object as it was.
C12_SceneAtomic ==
    [][ /\ \E s \in Streams : sceneParams' = Scenes[s]
        /\ renders' # renders =>
              LET read == RenderScene(sceneParams', history')
              IN  /\ sceneParams' = sceneParams
                  /\ \E s \in Streams :
                        /\ read.strokeStyle = Scenes[s].secondaryColor
                        /\ read.shapes = Scenes[s].shapes
                  /\ \E p \in 1..Len(PALETTES) :
                        /\ read.strokeStyle = PALETTES[p].secondary
                        /\ \A i \in 1..Len(read.shapes) :
                              read.shapes[i].color \in {PALETTES[p].primary, "#FFFFFF"}
      ]_vars

\* C12 witness: the second call replaced the scene while the first was
\* suspended, and both have rendered the scene of stream 2
C12_Witness ==
    /\ resetLog = {2} /\ scene = 1 /\ ~serial
    /\ sceneParams = Scenes[2]
    /\ now = 2 /\ Idle /\ renders = 2

\* C13: on a history of length L >= 1 a delay index d >= 0 resolves to the entry
\* at index min(d, L - 1), and on an empty history to no frame; a render places
\* every shape of the scene on the entry so resolved, and no shape when the
\* history is empty.
C13_HistoryLookup ==
    LET L == Len(history)
        shapes == sceneParams.shapes
        read == RenderScene(sceneParams, history)
        at(d) == IF d < L THEN d ELSE L - 1
    IN  /\ \A d \in 0..MaxDelay :
              FrameData(history, HistoryIndex(d, L)) =
                  (IF L = 0 THEN <<>> ELSE <<history[at(d) + 1]>>)
        /\ L = 0 => (read.placed = <<>> /\ read.drawn = <<>>)
        /\ L >= 1 =>
              /\ Len(read.placed) = Len(shapes)
              /\ \A k \in 1..Len(shapes) :
                    read.placed[k] =
                        [ shape |-> k - 1,
                          historyIndex |-> at(shapes[k].delayFrames),
                          ts |-> history[at(shapes[k].delayFrames) + 1].ts ]

\* C13 witness: a render on a history of 20 entries, of a scene with shapes
\* whose delay is within the history and shapes whose delay is beyond it
C13_Witness ==
    /\ Len(history) = 20 /\ renders = 20 /\ Idle
    /\ \E k \in 1..Len(sceneParams.shapes) : sceneParams.shapes[k].delayFrames < 19
    /\ \E k \in 1..Len(sceneParams.shapes) : sceneParams.shapes[k].delayFrames > 19

\* C18: when a send throws, the step that handles it changes nothing of the
\* session (refs, history, scene, component state, camera) and leaves a frame
\* callback scheduled.
C18_SendFailureDropped ==
    [][ (poll = "sending" /\ poll' # "sending" /\ lastSend' = "threw") =>
           /\ poll' = "scheduled"
           /\ UNCHANGED session
           /\ UNCHANGED <<mounted, initialized, faceMeshRef, permissionError,
                          errorMsg, isLoaded, camera>> ]_vars

\* C18 witness: after an onResults call pushed a frame, a send threw and the
\* send after it is pending
C18_Witness ==
    /\ lastSend = "threw"
    /\ poll = "sending"
    /\ mounted
    /\ Len(history) = 1 /\ Idle

\* C19: when initSystem fails the error state is set; from then on initSystem
\* stays failed, faceMeshRef.current stays unset, no send is made, and
\* onResults and renderScene are never called.
C19_InitFailureFatal ==
    [][ /\ (initialized = "pending" /\ initialized' = "failed") =>
              (permissionError' /\ errorMsg' # "")
        /\ initialized = "failed" => initialized' = "failed"
        /\ initialized' = "failed" =>
              /\ ~faceMeshRef'
              /\ poll' = "off"
              /\ lastSend' = "none"
              /\ now' = 0 /\ renders' = 0 ]_vars

\* C19 witness: initSystem failed, the user retried, the camera was granted
\* and plays, and processVideo returned without sending
C19_Witness ==
    /\ initialized = "failed"
    /\ mounted
    /\ camera = "playing" /\ isLoaded
    /\ ~permissionError /\ errorMsg = ""
    /\ poll = "off" /\ lastSend = "none" /\ renders = 0

\* C21: within the scene in use, the ids of the shapes are pairwise distinct.
C21_IdsDistinct ==
    \A i, j \in 1..Len(sceneParams.shapes) :
        i # j => sceneParams.shapes[i].id # sceneParams.shapes[j].id

\* C22: the cooldown is an integer in 0..BLINK_COOLDOWN; the tail of every
\* call that completes, with a face or without, with bitmaps or without, takes
\* exactly 1 from a cooldown above 0 and leaves a cooldown of 0 at 0; no other
\* step changes it except a reset, which sets it to BLINK_COOLDOWN.
C22_CooldownRange ==
    [][ /\ cooldown \in 0..BLINK_COOLDOWN
        /\ cooldown' \in 0..BLINK_COOLDOWN
        /\ renders' # renders =>
              cooldown' = (IF cooldown > 0 THEN cooldown - 1 ELSE 0)
        /\ renders' = renders =>
              cooldown' = (IF resetLog' # resetLog THEN BLINK_COOLDOWN ELSE cooldown) ]_vars

\* C22 witness: the cooldown set by the reset of the first call has run down
\* to 0, through calls without a face or without bitmaps, and two more calls
\* have left it at 0
C22_Witness ==
    /\ resetLog = {1} /\ now = BLINK_COOLDOWN + 2 /\ Idle
    /\ renders = now /\ created = {}
    /\ cooldown = 0

\* C23: the render of a call reads the head position as smoothed by that call,
\* the history with the frame that call pushed at index 0, and, when that call
\* reset the scene, the scene its reset generated; the cooldown is decremented
\* before it.
C23_TickOrder ==
    [][ renders' # renders =>
          LET resumed == inflight \ inflight'
          IN  /\ cooldown' = (IF cooldown > 0 THEN cooldown - 1 ELSE 0)
              /\ head' = Pt(Lerp(head.x, target'.x, LERP_T),
                            Lerp(head.y, target'.y, LERP_T))
              /\ seen'.head = head'
              /\ history' # history =>
                    \A inv \in resumed :
                        history'[1] = Frame(inv.ts) /\ seen'.top = inv.ts
              /\ \A inv \in resumed :
                    inv.ts \in resetLog =>
                        seen'.scene = Cardinality({t \in resetLog : t <= inv.ts}) ]_vars

\* C24: a render places and draws every shape of the scene when the history
\* has an entry and none when it is empty, and in both cases decays the flash
\* once.
C24_SkipIffEmpty ==
    [][ renders' # renders =>
          \A read \in {RenderScene(sceneParams', history')} :
              /\ Len(read.drawn) = Len(read.placed)
              /\ history' = <<>> => Len(read.placed) = 0
              /\ history' # <<>> =>
                    (Len(read.placed) = Len(read.shapes) /\
                     \A k \in 1..Len(read.shapes) : read.placed[k].shape = k - 1)
              /\ flash' = (IF flash > FLASH_EPSILON
                           THEN (flash * FLASH_DECAY) \div 100 ELSE 0) ]_vars

\* C24 witness: the first call reset the scene and pushed nothing, so that its
\* render placed no shape, and the flash has decayed once
C24_Witness ==
    /\ now = 1 /\ Idle /\ renders = 1
    /\ history = <<>>
    /\ RenderScene(sceneParams, history).placed = <<>>
    /\ resetLog = {1}
    /\ flash = (FLASH_ONE * FLASH_DECAY) \div 100

\* C25: a step without a reset leaves the scene object as it is; after the
\* step of a call that ends in a render the scene is the one before the step,
\* the history is the one the push left, the cooldown the one the decrement
\* left and the head position the one the smoothing left, the flash alone
\* having been decayed by the render.
C25_RenderWritesFlashOnly ==
    [][ /\ resetLog' = resetLog => (sceneParams' = sceneParams /\ scene' = scene)
        /\ renders' # renders =>
              /\ sceneParams' = sceneParams /\ scene' = scene
              /\ \/ history' = history
                 \/ \E inv \in inflight \ inflight' :
                       history' = PushFrame(history, Frame(inv.ts))
              /\ cooldown' = (IF cooldown > 0 THEN cooldown - 1 ELSE 0)
              /\ head' = Pt(Lerp(head.x, target'.x, LERP_T),
                            Lerp(head.y, target'.y, LERP_T))
              /\ seen' = [top |-> Top(history'), scene |-> scene', head |-> head']
              /\ flash' = (IF flash > FLASH_EPSILON
                           THEN (flash * FLASH_DECAY) \div 100 ELSE 0) ]_vars

\* C25 witness: the first call reset the scene, the second did not, and both
\* have rendered the scene of the reset
C25_Witness ==
    /\ resetLog = {1} /\ now = 2 /\ Idle /\ renders = 2
    /\ sceneParams = Scenes[3] /\ scene = 1 /\ seen.scene = 1
    /\ Len(history) = 2
    /\ cooldown = BLINK_COOLDOWN - 2
    /\ flash = (((FLASH_ONE * FLASH_DECAY) \div 100) * FLASH_DECAY) \div 100

\* C26: no step shortens the history, and a history of MAX_HISTORY entries
\* keeps that length; a step that pushes nothing (a reset, a call without a
\* face, a call whose extraction failed) leaves the history as it is and
\* closes no bitmap; an entry leaves the history only in a push onto a history
\* of MAX_HISTORY entries, and it is the last one.
C26_HistoryGrows ==
    [][ /\ Len(history') >= Len(history)
        /\ Len(history) = MAX_HISTORY => Len(history') = MAX_HISTORY
        /\ history' = history => closed' = closed
        /\ resetLog' # resetLog => (history' = history /\ closed' = closed)
        /\ history' # history =>
              /\ Len(history) < MAX_HISTORY =>
                    (Range(history) \subseteq Range(history') /\ closed' = closed)
              /\ Len(history) = MAX_HISTORY =>
                    Range(history) \ Range(history') = {history[MAX_HISTORY]} ]_vars

\* C26 witness: the history reached MAX_HISTORY entries, and a scene reset and
\* a last call that pushed nothing left it at that length with no bitmap closed
C26_Witness ==
    /\ Len(history) = MAX_HISTORY
    /\ now = WarmTicks + FreeTicks /\ Idle /\ renders = now
    /\ history[1].ts = now - 1
    /\ resetLog # {}
    /\ closed = {}

\* C27: no entry of the history holds a closed bitmap, and every bitmap a
\* render draws is a created and open bitmap of the entry of the history that
\* the placement pass resolved for its shape.
C27_DrawsOpenBitmaps ==
    [][ /\ \A i \in 1..Len(history') : FrameBitmaps(history'[i]) \cap closed' = {}
        /\ renders' # renders =>
              \A read \in {RenderScene(sceneParams', history')} :
                  \A k \in 1..Len(read.drawn) :
                      /\ read.drawn[k] \in created' \ closed'
                      /\ read.drawn[k].ts = read.placed[k].ts
                      /\ read.drawn[k] \in
                            FrameBitmaps(history'[read.placed[k].historyIndex + 1]) ]_vars

\* C27 witness: calls have overlapped, the oldest entry was evicted and its
\* bitmaps closed, and the render after that drew every shape of the scene
C27_Witness ==
    /\ ~serial /\ Idle
    /\ Len(history) = MAX_HISTORY
    /\ closed = {Bmp(1, "L"), Bmp(1, "R")}
    /\ history[1].ts = now /\ renders = now
    /\ Len(RenderScene(sceneParams, history).drawn) = Len(sceneParams.shapes)

\* the history length from which on no lookup is clamped
FULL_DEPTH == 45

\* C28: every shape of the scene has delayFrames in 2..44, below MAX_HISTORY;
\* once the history holds 45 entries every shape resolves to the entry at
\* index delayFrames, and a lookup is clamped only on a shorter history.
C28_DelayWithinHistory ==
    LET shapes == sceneParams.shapes
        L == Len(history)
    IN  \A i \in 1..Len(shapes) :
            LET d == shapes[i].delayFrames
            IN  /\ d \in 2..(FULL_DEPTH - 1)
                /\ d < MAX_HISTORY
                /\ L >= FULL_DEPTH =>
                      /\ HistoryIndex(d, L) = d
                      /\ FrameData(history, HistoryIndex(d, L)) = <<history[d + 1]>>
                /\ HistoryIndex(d, L) # d => L < FULL_DEPTH

\* C28 witness: a render over a history of exactly 45 entries of a scene with
\* a shape of delay 44, which resolves to the oldest entry without clamping
C28_Witness ==
    /\ Len(history) = FULL_DEPTH /\ Idle /\ renders = FULL_DEPTH
    /\ \E i \in 1..Len(sceneParams.shapes) :
          /\ sceneParams.shapes[i].delayFrames = FULL_DEPTH - 1
          /\ RenderScene(sceneParams, history).placed[i].ts = history[FULL_DEPTH].ts

\* C29: the cleanup leaves no frame callback scheduled; after it no send is
\* begun, a pending send that settles schedules one frame callback, and that
\* callback ends the loop; no onResults call begins its work, so that the
\* session state changes only when a call suspended before the cleanup resumes.
C29_LoopStopsAfterUnmount ==
    [][ /\ (mounted /\ ~mounted') => poll' # "scheduled"
        /\ ~mounted =>
              /\ ~mounted'
              /\ poll' # poll =>
                    <<poll, poll'>> \in {<<"sending", "scheduled">>, <<"scheduled", "off">>}
              /\ now' = now
              /\ inflight' \subseteq inflight
              /\ inflight' = inflight => UNCHANGED session ]_vars

\* C29 witness: the component was unmounted while a send was pending, after an
\* onResults call had rendered; the send has settled and its frame callback is
\* scheduled
C29_Witness ==
    /\ ~mounted
    /\ poll = "scheduled"
    /\ lastSend # "none"
    /\ camera = "stopped"
    /\ renders >= 1 /\ Idle

\* the landmarks of an eye share one x or one y
Degenerate(eye) ==
    \/ FoldMin(Xs(eye), 1, 100) = FoldMax(Xs(eye), 1, 0)
    \/ FoldMin(Ys(eye), 1, 100) = FoldMax(Ys(eye), 1, 0)

\* a crop has positive width and height and lies inside the frame, and there
\* is no crop exactly for landmarks that share one x or one y
CropInsideFrame(eye, width, height) ==
    LET r == ExtractEye(eye, width, height)
    IN  /\ r.crop <=> ~Degenerate(eye)
        /\ r.crop =>
              /\ r.sw > 0 /\ r.sh > 0
              /\ r.sx >= 0 /\ r.sy >= 0
              /\ r.sx + r.sw <= width * FloatOne
              /\ r.sy + r.sh <= height * FloatOne

\* C30: in every onResults call fed a face, each of the two extractEye calls
\* yields a crop of positive width and height inside the frame, or no crop,
\* the latter exactly when the landmarks of the eye share one x or one y.
C30_CropWithinFrame ==
    [][ \A f \in BoxFaces :
          OnResultsFace(f, EyeTicks, 1) =>
              /\ CropInsideFrame(f.left, VIDEO_WIDTH, VIDEO_HEIGHT)
              /\ CropInsideFrame(f.right, VIDEO_WIDTH, VIDEO_HEIGHT)
              /\ \A inv \in inflight' \ inflight :
                    /\ inv.left = ExtractEye(f.left, VIDEO_WIDTH, VIDEO_HEIGHT).crop
                    /\ inv.right = ExtractEye(f.right, VIDEO_WIDTH, VIDEO_HEIGHT).crop ]_vars

====
